---- MODULE Spec2Model ----
(***************************************************************************)
(* Model of src/tampermonkey/keepalive.js: the 10-minute heartbeat         *)
(* watchdog.  Time is in milliseconds, as read by Date.now().  The page    *)
(* (DOM) is the environment: every callback reads it afresh and may find   *)
(* it in any state.  JavaScript runs each callback to completion, so one   *)
(* action is one callback: the timer callback that starts heartbeat() up   *)
(* to its first await (or its return), and every continuation after an     *)
(* awaited setTimeout.                                                     *)
(***************************************************************************)
EXTENDS Integers, Sequences, FiniteSets, TLC

VARIABLES clock, lastReloadAt, bootAt, intervalAt, ticks, last,
          reloadPending, loads, hist, step, reqs, sched

vars == <<clock, lastReloadAt, bootAt, intervalAt, ticks, last,
          reloadPending, loads, hist, step, reqs, sched>>

----------------------------------------------------------------------------
(* Program constants (keepalive.js:51-55) *)
HEARTBEAT_MS == 10 * 60000
BOOT_GRACE_MS == 5000
START_WAIT_LOOPS == 16
START_WAIT_STEPMS == 500
RELOAD_GUARD_MS == 60000

(* Bounds of the model *)
MaxClock == 720000
MaxLoads == 1
MaxGuardClock == 185000
MaxReqs == 3

(* A timer that is not registered has no deadline. *)
NoTimer == -1

(* Values Date.now() may read when the script is first loaded. *)
InitClocks == {0, 100000}

(* Clock advances between two direct reload requests (SpecGuard). *)
Deltas == {0, 30000, 31000, 59999, 60000}

----------------------------------------------------------------------------
(* The page.  A countdown that a regular expression extracts is kept as    *)
(* the tuple of numbers that split(":").map(Number) yields; <<>> is a row  *)
(* whose scope text has no match.                                          *)
NoMatch == <<>>

NextOpts == { <<>>,
              << <<0, 0, 0, 0>> >>,
              << NoMatch, <<0, 0, 0>> >>,
              << <<0, 0, 5, 0>> >> }

SolveOpts == { <<>>,
               << NoMatch >>,
               << <<0, 0, 0>> >>,
               << <<0, 1, 30>> >> }

Doms == [stop : BOOLEAN, start : {"none", "disabled", "enabled"},
         next : NextOpts, solve : SolveOpts]

(* What a confirmation poll can see of the page: the stop button (the only *)
(* thing tryStart() reads) and whether a solving row is still shown.       *)
PollObs == [stop : BOOLEAN, solving : BOOLEAN]

RECURSIVE SumSeq(_)
SumSeq(s) == IF s = <<>> THEN 0 ELSE Head(s) + SumSeq(Tail(s))

(* findBtn("stop session") *)
findStop(d) == d.stop

(* Variant with a slip: a row counts only with a nonzero time left. *)
isSolving_needsTime(d) ==
  IF Len(d.solve) = 0 THEN FALSE
  ELSE IF \E i \in DOMAIN d.solve :
            d.solve[i] # NoMatch /\ SumSeq(d.solve[i]) > 0
       THEN TRUE
       ELSE FALSE

(* isSolving(): true as soon as one row matches, with or without a time *)
isSolving(d) ==
  IF Len(d.solve) = 0 THEN FALSE
  ELSE IF \E i \in DOMAIN d.solve :
            d.solve[i] # NoMatch /\ SumSeq(d.solve[i]) > 0
       THEN TRUE
       ELSE TRUE

(* isNextChallengeReady(): some row's countdown parses to all-zero parts *)
isNextChallengeReady(d) ==
  IF Len(d.next) = 0 THEN FALSE
  ELSE \E i \in DOMAIN d.next :
            /\ d.next[i] # NoMatch
            /\ \A j \in DOMAIN d.next[i] : d.next[i][j] = 0

(* Variant with a slip: `start.disabled` is not looked at. *)
startClickable_anyButton(d) == d.start # "none"

(* tryStart() up to the click: is there an enabled start button? *)
startClickable(d) == d.start = "enabled"

----------------------------------------------------------------------------
(* safeReload(reason): the guard of lines 128-131 and the update of 133.   *)
(* The two now() calls are in one synchronous callback and read the same   *)
(* instant.  Result: the new lastReloadAt and whether location.reload()    *)
(* was called.                                                             *)
(* Variants with a slip: the timestamp is never recorded; the timestamp   *)
(* is recorded even when the guard blocks; the comparison is <= ; there    *)
(* is no guard.                                                            *)
safeReload_noStamp(nowv, lra) ==
  IF nowv - lra < RELOAD_GUARD_MS
  THEN [lastReloadAt |-> lra, reloaded |-> FALSE]
  ELSE [lastReloadAt |-> lra, reloaded |-> TRUE]

safeReload_stampAlways(nowv, lra) ==
  IF nowv - lra < RELOAD_GUARD_MS
  THEN [lastReloadAt |-> nowv, reloaded |-> FALSE]
  ELSE [lastReloadAt |-> nowv, reloaded |-> TRUE]

safeReload_lte(nowv, lra) ==
  IF nowv - lra <= RELOAD_GUARD_MS
  THEN [lastReloadAt |-> lra, reloaded |-> FALSE]
  ELSE [lastReloadAt |-> nowv, reloaded |-> TRUE]

safeReload_noGuard(nowv, lra) ==
  [lastReloadAt |-> nowv, reloaded |-> TRUE]

safeReload(nowv, lra) ==
  IF nowv - lra < RELOAD_GUARD_MS
  THEN [lastReloadAt |-> lra, reloaded |-> FALSE]
  ELSE [lastReloadAt |-> nowv, reloaded |-> TRUE]

(* Variants with a slip in the order of the checks. *)
heartbeatBranch_readyFirst(d) ==
  IF isNextChallengeReady(d) THEN "ready"
  ELSE IF findStop(d) THEN "running"
  ELSE IF isSolving(d) THEN "solving"
  ELSE "default"

heartbeatBranch_solvingFirst(d) ==
  IF findStop(d) THEN "running"
  ELSE IF isSolving(d) THEN "solving"
  ELSE IF isNextChallengeReady(d) THEN "ready"
  ELSE "default"

(* heartbeat(): the order of the three checks of lines 138-157 *)
heartbeatBranch(d) ==
  IF findStop(d) THEN "running"
  ELSE IF isNextChallengeReady(d) THEN "ready"
  ELSE IF isSolving(d) THEN "solving"
  ELSE "default"

(* Variant with a slip: the reload is requested whatever tryStart said. *)
requestsReload_always(started) == TRUE

(* heartbeat(): `if (!started)` of lines 149 and 161 *)
requestsReload(started) == ~started

(* Variant with a slip: the loop runs once more. *)
pollAgain_oneMore(i) == i <= START_WAIT_LOOPS

(* tryStart(): the loop condition `i < START_WAIT_LOOPS` after i++ *)
pollAgain(i) == i < START_WAIT_LOOPS

(* Variants with a slip: no interval is registered; the interval is in   *)
(* seconds instead of minutes.                                             *)
nextIntervalAt_never(t) == NoTimer

nextIntervalAt_seconds(t) == t + 10 * 1000

(* Variant with a slip: the interval is given the poll step. *)
nextIntervalAt_step(t) == t + START_WAIT_STEPMS

(* setInterval(heartbeat, HEARTBEAT_MS): the deadline after one at time t *)
nextIntervalAt(t) == t + HEARTBEAT_MS

(* Variant with a slip: heartbeat is started with no grace delay. *)
bootDeadline_noGrace(t) == t

(* setTimeout(..., BOOT_GRACE_MS) of a script loaded at time t *)
bootDeadline(t) == t + BOOT_GRACE_MS

----------------------------------------------------------------------------
(* One heartbeat() invocation, as observed: the page it read at its start  *)
(* and what it did.  None of this is held by the code; it is recorded so   *)
(* that properties of a tick can be stated.                                *)
NoTick == [kind |-> "none"]

NewTick(kind, d) ==
  [kind             |-> kind,
   page             |-> d,
   solvingAll       |-> Len(d.solve) > 0,
   solvingConsulted |-> FALSE,
   tryStart         |-> FALSE,
   clicks           |-> 0,
   polls            |-> 0,
   wakeAt           |-> NoTimer,
   started          |-> "none",
   reloadReq        |-> FALSE,
   reloaded         |-> FALSE,
   reqAt            |-> <<>>,
   lraStart         |-> lastReloadAt,
   lraEnd           |-> lastReloadAt]

(* History of issued reloads: the times of the last two (oldest first),   *)
(* within this script lifetime and on the page across reloads.             *)
NoHist == [life |-> <<>>, page |-> <<>>]

LastTwo(s, t) == IF Len(s) = 0 THEN <<t>> ELSE <<s[Len(s)], t>>

HistAfter(h, issued, t) ==
  IF ~issued THEN h
  ELSE [life |-> LastTwo(h.life, t), page |-> LastTwo(h.page, t)]

ReqsAfter(q, t, lra, r) ==
  IF Len(q) < MaxReqs
  THEN Append(q, [at |-> t, last |-> lra, reloaded |-> r.reloaded,
                  lastReloadAt |-> r.lastReloadAt])
  ELSE q

(* The end of a heartbeat() invocation t whose tryStart() returned         *)
(* `started` ("yes"/"no"), or which returned before tryStart ("none").     *)
Conclude(t, started, act) ==
  LET req == started # "none" /\ requestsReload(started = "yes")
      r   == IF req THEN safeReload(clock, lastReloadAt)
             ELSE [lastReloadAt |-> lastReloadAt, reloaded |-> FALSE]
  IN /\ lastReloadAt' = r.lastReloadAt
     /\ reloadPending' = (reloadPending \/ r.reloaded)
     /\ hist' = HistAfter(hist, r.reloaded, clock)
     /\ reqs' = IF req THEN ReqsAfter(reqs, clock, lastReloadAt, r) ELSE reqs
     /\ step' = [act |-> act, issued |-> r.reloaded]
     /\ last' = [t EXCEPT !.started = started,
                          !.wakeAt = NoTimer,
                          !.reloadReq = req,
                          !.reloaded = r.reloaded,
                          !.reqAt = IF req THEN <<clock>> ELSE <<>>,
                          !.lraEnd = r.lastReloadAt]

(* heartbeat() from its call to its return or to the first await, on a    *)
(* page that reads d.                                                      *)
HeartbeatStart(kind, d) ==
  LET t0 == NewTick(kind, d)
      br == heartbeatBranch(d)
  IN IF br = "running"
     THEN /\ Conclude(t0, "none", kind)
          /\ ticks' = ticks
     ELSE IF br = "solving"
     THEN /\ Conclude([t0 EXCEPT !.solvingConsulted = TRUE], "none", kind)
          /\ ticks' = ticks
     ELSE LET t1 == [t0 EXCEPT !.solvingConsulted = (br = "default"),
                               !.tryStart = TRUE]
          IN IF ~startClickable(d)
             THEN /\ Conclude(t1, "no", kind)
                  /\ ticks' = ticks
             ELSE /\ ticks' = Append(ticks,
                                [t1 EXCEPT !.clicks = 1,
                                           !.started = "pending",
                                           !.wakeAt = clock + START_WAIT_STEPMS])
                  /\ step' = [act |-> kind, issued |-> FALSE]
                  /\ last' = NoTick
                  /\ UNCHANGED <<lastReloadAt, reloadPending, hist, reqs>>

RemoveAt(s, k) == [i \in 1..(Len(s) - 1) |-> IF i < k THEN s[i] ELSE s[i + 1]]

(* History of the schedule: when this script instance was loaded, when    *)
(* each of its heartbeat() invocations was made, and how many invocations  *)
(* the page has seen over all its instances.                               *)
Loaded(t, n) == [loadedAt |-> t, beats |-> <<>>, total |-> n]

Beat(sc, t) == [sc EXCEPT !.beats = Append(@, t), !.total = @ + 1]

----------------------------------------------------------------------------
Init ==
  /\ clock \in InitClocks
  /\ sched = Loaded(clock, 0)
  /\ lastReloadAt = 0
  /\ bootAt = bootDeadline(clock)
  /\ intervalAt = NoTimer
  /\ ticks = <<>>
  /\ last = NoTick
  /\ reloadPending = FALSE
  /\ loads = 0
  /\ hist = NoHist
  /\ step = [act |-> "load", issued |-> FALSE]
  /\ reqs = <<>>

(* The boot timer fires: heartbeat(); setInterval(heartbeat, HEARTBEAT_MS) *)
BootFire ==
  /\ bootAt # NoTimer
  /\ clock = bootAt
  /\ \E d \in Doms : HeartbeatStart("boot", d)
  /\ bootAt' = NoTimer
  /\ intervalAt' = nextIntervalAt(clock)
  /\ sched' = Beat(sched, clock)
  /\ UNCHANGED <<clock, loads>>

(* The interval timer fires: heartbeat() *)
IntervalFire ==
  /\ intervalAt # NoTimer
  /\ clock = intervalAt
  /\ \E d \in Doms : HeartbeatStart("interval", d)
  /\ intervalAt' = nextIntervalAt(intervalAt)
  /\ sched' = Beat(sched, clock)
  /\ UNCHANGED <<clock, bootAt, loads>>

(* tryStart() resumes after `await new Promise(r => setTimeout(r, 500))`   *)
(* and looks for the stop button.                                          *)
PollWake(k) ==
  /\ k \in DOMAIN ticks
  /\ ticks[k].wakeAt = clock
  /\ \E o \in PollObs :
       LET t == [ticks[k] EXCEPT !.polls = @ + 1,
                                 !.solvingAll = @ /\ o.solving]
       IN IF o.stop
          THEN /\ Conclude(t, "yes", "poll")
               /\ ticks' = RemoveAt(ticks, k)
          ELSE IF pollAgain(t.polls)
          THEN /\ ticks' = [ticks EXCEPT ![k] =
                              [t EXCEPT !.wakeAt = clock + START_WAIT_STEPMS]]
               /\ step' = [act |-> "poll", issued |-> FALSE]
               /\ UNCHANGED <<lastReloadAt, last, reloadPending, hist, reqs>>
          ELSE /\ Conclude(t, "no", "poll")
               /\ ticks' = RemoveAt(ticks, k)
  /\ UNCHANGED <<clock, bootAt, intervalAt, loads, sched>>

Deadlines ==
  {x \in {bootAt, intervalAt} : x # NoTimer}
    \cup {ticks[k].wakeAt : k \in DOMAIN ticks}

(* Time passes up to the next timer; a timer that is due fires first. *)
Advance ==
  /\ Deadlines # {}
  /\ \A x \in Deadlines : x > clock
  /\ LET nxt == CHOOSE x \in Deadlines : \A y \in Deadlines : x <= y
     IN /\ nxt <= MaxClock
        /\ clock' = nxt
  /\ step' = [act |-> "advance", issued |-> FALSE]
  /\ UNCHANGED <<lastReloadAt, bootAt, intervalAt, ticks, last,
                 reloadPending, loads, hist, reqs, sched>>

(* location.reload() takes effect: the page unloads, every timer and       *)
(* pending invocation of the old script dies, and the script is loaded     *)
(* afresh (line 57 runs again, the boot timer is set again).               *)
Unload ==
  /\ reloadPending
  /\ loads < MaxLoads
  /\ loads' = loads + 1
  /\ lastReloadAt' = 0
  /\ bootAt' = bootDeadline(clock)
  /\ intervalAt' = NoTimer
  /\ ticks' = <<>>
  /\ last' = NoTick
  /\ reloadPending' = FALSE
  /\ hist' = [hist EXCEPT !.life = <<>>]
  /\ reqs' = <<>>
  /\ step' = [act |-> "unload", issued |-> FALSE]
  /\ sched' = Loaded(clock, sched.total)
  /\ UNCHANGED clock

Next ==
  \/ BootFire
  \/ IntervalFire
  \/ \E k \in DOMAIN ticks : PollWake(k)
  \/ Advance
  \/ Unload

Spec == Init /\ [][Next]_vars

(* The host delivers every timer callback that is due and lets time pass;  *)
(* whether and when a requested reload takes effect is left open.          *)
SpecFair ==
  /\ Spec
  /\ WF_vars(Advance)
  /\ WF_vars(BootFire)
  /\ WF_vars(IntervalFire)
  /\ WF_vars(\E k \in DOMAIN ticks : PollWake(k))


----------------------------------------------------------------------------
(* safeReload() on its own: reload requests made at any non-decreasing     *)
(* clock values, by whatever caller, from the state the script is loaded   *)
(* in.                                                                     *)
InitGuard ==
  /\ sched = Loaded(0, 0)
  /\ clock = 0
  /\ lastReloadAt = 0
  /\ bootAt = NoTimer
  /\ intervalAt = NoTimer
  /\ ticks = <<>>
  /\ last = NoTick
  /\ reloadPending = FALSE
  /\ loads = 0
  /\ hist = NoHist
  /\ step = [act |-> "load", issued |-> FALSE]
  /\ reqs = <<>>

Request(d) ==
  /\ clock + d <= MaxGuardClock
  /\ clock' = clock + d
  /\ LET r == safeReload(clock', lastReloadAt)
     IN /\ lastReloadAt' = r.lastReloadAt
        /\ reloadPending' = (reloadPending \/ r.reloaded)
        /\ hist' = HistAfter(hist, r.reloaded, clock')
        /\ reqs' = ReqsAfter(reqs, clock', lastReloadAt, r)
        /\ step' = [act |-> "request", issued |-> r.reloaded]
  /\ UNCHANGED <<bootAt, intervalAt, ticks, last, loads, sched>>

NextGuard == \E d \in Deltas : Request(d)

SpecGuard == InitGuard /\ [][NextGuard]_vars


----------------------------------------------------------------------------
(* Properties *)

AllTicks ==
  {ticks[k] : k \in DOMAIN ticks} \cup (IF last = NoTick THEN {} ELSE {last})

Finished == last # NoTick

noIndicators(d) == ~d.stop /\ Len(d.next) = 0 /\ Len(d.solve) = 0

Gap(s) == s[2] - s[1]

(* C1: a tick that finds a stop-session control at its start performs no   *)
(* click and neither requests nor issues a reload, whatever the countdown  *)
(* and the solving rows show.                                              *)
C1_RunningNoAction ==
  \A t \in AllTicks :
    findStop(t.page) =>
      /\ t.clicks = 0
      /\ ~t.tryStart
      /\ ~t.reloadReq
      /\ ~t.reloaded
      /\ t.lraEnd = t.lraStart

C1_Witness ==
  /\ Finished
  /\ findStop(last.page)
  /\ isNextChallengeReady(last.page)
  /\ Len(last.page.solve) > 0
  /\ last.page.start = "enabled"
  /\ clock >= RELOAD_GUARD_MS

(* C2: within one script lifetime, two reloads that are issued are never   *)
(* less than RELOAD_GUARD_MS apart, whatever the sequence of requests.     *)
C2_OneReloadPerWindow ==
  Len(hist.life) = 2 => Gap(hist.life) >= RELOAD_GUARD_MS

C2_Witness ==
  /\ Len(hist.life) = 2
  /\ Len(reqs) = 3
  /\ reqs[1].reloaded /\ ~reqs[2].reloaded /\ reqs[3].reloaded

(* C3: counting the reloads of every script instance on the page, two      *)
(* consecutive reloads are never less than RELOAD_GUARD_MS apart.          *)
C3_GuardAcrossReloads ==
  Len(hist.page) = 2 => Gap(hist.page) >= RELOAD_GUARD_MS

(* C4: from the state the script is loaded in, reload requests at clock    *)
(* values 0 s, 30 s and 61 s are allowed (timestamp set to 0), blocked     *)
(* (timestamp unchanged) and allowed.                                      *)
C4_GuardExample ==
  /\ (Len(reqs) >= 1 /\ reqs[1].at = 0) =>
        (reqs[1].reloaded /\ reqs[1].lastReloadAt = 0)
  /\ (Len(reqs) >= 2 /\ reqs[1].at = 0 /\ reqs[2].at = 30000) =>
        (~reqs[2].reloaded /\ reqs[2].lastReloadAt = reqs[2].last)
  /\ (Len(reqs) >= 3 /\ reqs[1].at = 0 /\ reqs[2].at = 30000
        /\ reqs[3].at = 61000) =>
        reqs[3].reloaded

(* C5: a tick during which a "finding a solution" row is on the page at    *)
(* every look issues no reload.                                            *)
C5_NoReloadWhileSolving ==
  \A t \in AllTicks : t.solvingAll => ~t.reloaded

(* C6: a tick that finds no stop control and a countdown that parses to    *)
(* all-zero calls tryStart without consulting isSolving, also when a       *)
(* solving row is present, and requests a reload when the start is not     *)
(* confirmed.                                                              *)
C6_ReadyStartsRegardless ==
  \A t \in AllTicks :
    (~findStop(t.page) /\ isNextChallengeReady(t.page)) =>
      /\ t.tryStart
      /\ ~t.solvingConsulted
      /\ (t.started = "no" => t.reloadReq)

C6_Witness ==
  /\ Finished
  /\ ~findStop(last.page)
  /\ isNextChallengeReady(last.page)
  /\ Len(last.page.solve) > 0
  /\ last.page.start = "enabled"
  /\ last.started = "no"
  /\ last.polls = START_WAIT_LOOPS
  /\ last.reloadReq

(* C7: a tick whose start is confirmed at one of its at most               *)
(* START_WAIT_LOOPS polls requests no reload, issues none and leaves       *)
(* lastReloadAt as it was.                                                 *)
C7_ConfirmedNoReload ==
  \A t \in AllTicks :
    t.started = "yes" =>
      /\ t.polls >= 1 /\ t.polls <= START_WAIT_LOOPS
      /\ ~t.reloadReq
      /\ ~t.reloaded
      /\ t.lraEnd = t.lraStart
      /\ (t = last => lastReloadAt = t.lraStart)

C7_Witness ==
  /\ Finished
  /\ last.started = "yes"
  /\ last.polls = START_WAIT_LOOPS
  /\ clock >= RELOAD_GUARD_MS

(* C8: a tick that finds no stop control, no countdown and no solving row  *)
(* calls tryStart; when the start is not confirmed it requests a reload,   *)
(* which is issued exactly when RELOAD_GUARD_MS have passed since the      *)
(* last-reload timestamp and is skipped otherwise.                         *)
C8_NoIndicatorsStartOrReload ==
  \A t \in AllTicks :
    noIndicators(t.page) =>
      /\ t.tryStart
      /\ (t.started = "yes" => ~t.reloadReq)
      /\ (t.started = "no" =>
            /\ t.reloadReq
            /\ Len(t.reqAt) = 1
            /\ (t.reloaded <=> t.reqAt[1] - t.lraStart >= RELOAD_GUARD_MS)
            /\ (t.reloaded => t.lraEnd = t.reqAt[1])
            /\ (~t.reloaded => t.lraEnd = t.lraStart))

C8_Witness ==
  /\ Finished
  /\ noIndicators(last.page)
  /\ last.started = "no"
  /\ last.reloadReq
  /\ ~last.reloaded
  /\ last.polls = START_WAIT_LOOPS

(* C9: within a script lifetime the clock and lastReloadAt never decrease, *)
(* and lastReloadAt changes only in a step that issues a reload; a tick    *)
(* that ends without issuing one leaves it as it found it.                 *)
C9_TimestampFrame ==
  [][ /\ clock' >= clock
      /\ step'.act # "unload" =>
           /\ lastReloadAt' >= lastReloadAt
           /\ (lastReloadAt' # lastReloadAt => step'.issued)
           /\ (last' # NoTick /\ ~last'.reloaded =>
                 /\ last'.lraEnd = last'.lraStart
                 /\ lastReloadAt' = last'.lraStart) ]_vars

C9_Witness ==
  /\ Finished
  /\ last.reloadReq
  /\ ~last.reloaded
  /\ lastReloadAt = last.lraStart
  /\ clock > 0

(* C10: at most one heartbeat invocation is in progress at any time.       *)
C10_NoOverlap ==
  /\ Len(ticks) <= 1
  /\ \A k \in DOMAIN ticks :
       intervalAt # NoTimer /\
       intervalAt > ticks[k].wakeAt
                      + (START_WAIT_LOOPS - ticks[k].polls - 1) * START_WAIT_STEPMS

C10_Witness ==
  /\ Len(ticks) = 1
  /\ ticks[1].kind = "interval"
  /\ ticks[1].polls = START_WAIT_LOOPS - 1

(* C11: with no stop control and a countdown that is not all-zero, a tick  *)
(* that sees at least one "finding a solution" row does nothing: isSolving *)
(* is consulted and answers true whether the row's time left is missing,   *)
(* zero or nonzero, so there is no start attempt, no click, no suspension  *)
(* and no reload request.                                                  *)
C11_AnySolvingRowSkips ==
  \A t \in AllTicks :
    (~findStop(t.page) /\ ~isNextChallengeReady(t.page)
       /\ Len(t.page.solve) >= 1) =>
      /\ isSolving(t.page)
      /\ t.solvingConsulted
      /\ ~t.tryStart
      /\ t.clicks = 0
      /\ t.polls = 0
      /\ t.started = "none"
      /\ ~t.reloadReq
      /\ ~t.reloaded
      /\ t.lraEnd = t.lraStart

C11_Witness ==
  /\ Finished
  /\ ~findStop(last.page)
  /\ ~isNextChallengeReady(last.page)
  /\ last.page.solve = << <<0, 0, 0>> >>
  /\ last.page.start = "enabled"
  /\ last.solvingConsulted
  /\ clock >= RELOAD_GUARD_MS

(* C12: a tick is suspended only in the polling of tryStart, after its     *)
(* click, at most START_WAIT_LOOPS times: it ends at the first poll that   *)
(* sees a stop control and, failing that, at poll START_WAIT_LOOPS with    *)
(* the answer false; a tick still waiting has polls left and a timer set.  *)
C12_BoundedPolling ==
  /\ \A t \in AllTicks :
       /\ t.polls >= 0 /\ t.polls <= START_WAIT_LOOPS
       /\ (t.polls > 0 => t.tryStart /\ t.clicks = 1)
       /\ (t.started = "yes" => t.polls >= 1)
       /\ (t.started = "no" => t.polls \in {0, START_WAIT_LOOPS})
       /\ (t.started = "no" /\ t.clicks = 1 => t.polls = START_WAIT_LOOPS)
       /\ (t.started = "none" => t.polls = 0)
  /\ \A k \in DOMAIN ticks :
       /\ ticks[k].started = "pending"
       /\ ticks[k].polls < START_WAIT_LOOPS
       /\ ticks[k].wakeAt # NoTimer
       /\ ticks[k].wakeAt >= clock
       /\ ticks[k].wakeAt <= clock + START_WAIT_STEPMS
  /\ (Finished => last.started # "pending" /\ last.wakeAt = NoTimer)

C12_Witness ==
  /\ Finished
  /\ last.started = "no"
  /\ last.clicks = 1
  /\ last.polls = START_WAIT_LOOPS
  /\ last.kind = "interval"
  /\ Len(ticks) = 0

(* C13: a tick clicks at most once, and only an enabled start button in a  *)
(* tick that saw no stop control at its start; a tick that calls tryStart  *)
(* and finds the start button absent or disabled neither clicks nor waits  *)
(* and goes straight to the reload request.                                *)
C13_ClickOnlyEnabledStart ==
  \A t \in AllTicks :
    /\ t.clicks \in {0, 1}
    /\ (t.clicks = 1 =>
          /\ t.page.start = "enabled"
          /\ ~findStop(t.page)
          /\ t.tryStart)
    /\ (t.tryStart /\ t.page.start # "enabled" =>
          /\ t.clicks = 0
          /\ t.polls = 0
          /\ t.started = "no"
          /\ t.reloadReq
          /\ Len(t.reqAt) = 1)

C13_Witness ==
  /\ Finished
  /\ last.tryStart
  /\ last.page.start = "disabled"
  /\ last.clicks = 0
  /\ last.polls = 0
  /\ last.reloadReq
  /\ last.reloaded

(* C14: no heartbeat runs before BOOT_GRACE_MS have passed since the       *)
(* script was loaded; the first runs when they have, and the n-th runs     *)
(* (n-1) * HEARTBEAT_MS after the first, one per interval.                 *)
C14_Cadence ==
  LET n == Len(sched.beats)
      first == sched.loadedAt + BOOT_GRACE_MS
  IN /\ \A i \in 1..n : sched.beats[i] = first + (i - 1) * HEARTBEAT_MS
     /\ (n = 0 => /\ clock <= first
                  /\ bootAt # NoTimer
                  /\ intervalAt = NoTimer
                  /\ AllTicks = {})
     /\ (n >= 1 => /\ bootAt = NoTimer
                   /\ intervalAt = first + n * HEARTBEAT_MS
                   /\ clock >= sched.beats[n]
                   /\ clock <= intervalAt)

C14_Witness ==
  /\ Len(sched.beats) = 2
  /\ sched.loadedAt > 100000
  /\ loads >= 1
  /\ clock > sched.beats[2]

(* C15: after every outcome of a tick a heartbeat timer is still           *)
(* registered and not overdue, and another heartbeat invocation follows    *)
(* (as far as the clock of the model reaches).                             *)
Outcome ==
  IF ~Finished THEN "none"
  ELSE IF last.started = "none"
       THEN (IF last.solvingConsulted THEN "solving" ELSE "running")
  ELSE IF last.started = "yes" THEN "confirmed"
  ELSE IF last.reloaded THEN "reloaded"
  ELSE "blocked"

Scheduled ==
  \/ bootAt # NoTimer /\ bootAt >= clock /\ intervalAt = NoTimer
  \/ bootAt = NoTimer /\ intervalAt # NoTimer /\ intervalAt >= clock

BeatStep == step.act \in {"boot", "interval"}

C15_NothingFatal ==
  /\ [](Outcome # "none" => Scheduled)
  /\ (/\ Outcome # "none"
      /\ ~BeatStep
      /\ intervalAt + BOOT_GRACE_MS <= MaxClock) ~> BeatStep

C15_Witness ==
  /\ Outcome = "reloaded"
  /\ last.kind = "interval"
  /\ sched.total >= 3
  /\ loads >= 1
  /\ BeatStep

(* C16: in a script lifetime whose first tick runs with the clock at       *)
(* RELOAD_GUARD_MS or later, no reload request is blocked by the guard:    *)
(* every request of a tick issues a reload, and two requests are at least  *)
(* RELOAD_GUARD_MS apart.                                                  *)
C16_GuardNeverBlocks ==
  (Len(sched.beats) >= 1 /\ sched.beats[1] >= RELOAD_GUARD_MS) =>
     /\ \A t \in AllTicks : t.reloadReq => t.reloaded
     /\ \A i \in DOMAIN reqs :
          /\ reqs[i].reloaded
          /\ (i > 1 => reqs[i].at - reqs[i - 1].at >= RELOAD_GUARD_MS)

C16_Witness ==
  /\ Len(sched.beats) = 2
  /\ sched.beats[1] >= RELOAD_GUARD_MS
  /\ Len(reqs) = 2
  /\ reqs[1].at = sched.beats[1] + START_WAIT_LOOPS * START_WAIT_STEPMS
  /\ reqs[2].at = sched.beats[2]
  /\ reqs[2].reloaded

(* C17: a reload request is granted exactly when now - lastReloadAt is at  *)
(* least RELOAD_GUARD_MS, so also at exactly one guard window after the    *)
(* last reload; a granted request sets lastReloadAt to the clock value, a  *)
(* blocked one leaves it.                                                  *)
C17_GuardBoundary ==
  /\ \A i \in DOMAIN reqs :
       /\ reqs[i].reloaded <=> (reqs[i].at - reqs[i].last >= RELOAD_GUARD_MS)
       /\ (reqs[i].reloaded => reqs[i].lastReloadAt = reqs[i].at)
       /\ (~reqs[i].reloaded => reqs[i].lastReloadAt = reqs[i].last)
  /\ (step.act = "request" /\ step.issued => lastReloadAt = clock)

C17_Witness ==
  /\ Len(reqs) = 3
  /\ reqs[1].reloaded
  /\ reqs[2].last = reqs[1].at
  /\ reqs[2].at - reqs[2].last = RELOAD_GUARD_MS
  /\ reqs[2].reloaded
  /\ reqs[2].lastReloadAt = reqs[2].at
  /\ reqs[3].last = reqs[2].at
  /\ reqs[3].at - reqs[3].last = RELOAD_GUARD_MS - 1
  /\ ~reqs[3].reloaded
  /\ lastReloadAt = reqs[2].at

====
